---- MODULE Spec2Model ----
(***************************************************************************)
(* Model of the metric orchestrator of math_evaluator/tasks.py:            *)
(* multilingual_extractive_match_metric builds a closure sample_level_fn   *)
(* over a fixed configuration; each call of sample_level_fn extracts       *)
(* candidates from the gold and prediction strings, raises when a gold     *)
(* yields nothing, warns when no prediction yields anything, renders the   *)
(* extracted values to strings under a timeout, and returns the aggregated *)
(* per-prediction scores together with the rendering.                      *)
(*                                                                         *)
(* Floats are counted in units of 1.0 (1.0 is 1, 0.0 is 0); the numeric    *)
(* value of an extracted expression is counted in hundredths (1.05 is 105).*)
(***************************************************************************)
EXTENDS Integers, Sequences, FiniteSets, TLC

(***************************************************************************)
(* Bounds of the model.                                                    *)
(***************************************************************************)
MaxGolds == 2
MaxPreds == 2

Calls == {1, 2}

(***************************************************************************)
(* Texts.  A text stands for a non-empty string and is the sequence of     *)
(* substrings the extraction patterns can match in it, in scan order ("I   *)
(* don't know" has none).  Each match has the kind of target that *)
(* matches it, the form its normalization gives ("num": a numeric value,   *)
(* "slow": a symbolic expression whose simplification exceeds every time   *)
(* budget, "raw": normalization failed), its value in hundredths and its   *)
(* text.                                                                   *)
(***************************************************************************)
Match(kind, form, num, text) ==
    [kind |-> kind, form |-> form, num |-> num, text |-> text]

NoAnswer == <<>>
Boxed1 == <<Match("latex", "num", 100, "1")>>
Plain105 == <<Match("expr", "num", 105, "1.05")>>
BadLatex == <<Match("latex", "raw", 0, "\\frac{1")>>
SlowLatex == <<Match("latex", "slow", 0, "\\int")>>

Texts == {NoAnswer, Boxed1, Plain105, BadLatex, SlowLatex}

SeqsUpTo(S, n) == UNION {[1..k -> S] : k \in 0..n}

Range(s) == {s[i] : i \in 1..Len(s)}

(***************************************************************************)
(* Configuration fixed when the metric is constructed.                     *)
(***************************************************************************)
DefaultPrecision == 6

TargetPairs ==
    { <<(<<"expr">>), (<<"expr">>)>>,
      <<(<<"latex">>), (<<"latex", "expr">>)>> }

AggregationFunctions == {"max", "sum", "len"}

FallbackModes == {"no_fallback", "first_match"}

Precisions == {1, DefaultPrecision}

multilingual_extractive_match_metric(tp, agg, fb, prec) ==
    [gold_extraction_target |-> tp[1],
     pred_extraction_target |-> tp[2],
     aggregation_function |-> agg,
     fallback_mode |-> fb,
     precision |-> prec]

Configs ==
    { multilingual_extractive_match_metric(tp, agg, fb, prec) :
        tp \in TargetPairs, agg \in AggregationFunctions,
        fb \in FallbackModes, prec \in Precisions }

(***************************************************************************)
(* Collaborators of the orchestrator (parser, grader).                     *)
(***************************************************************************)
get_extraction_regexes(targets) == Range(targets)

Matches(text, regexes) == SelectSeq(text, LAMBDA m : m.kind \in regexes)

Normalized(ms) == SelectSeq(ms, LAMBDA m : m.form # "raw")

extract_target_from_pred(text, regexes, mode) ==
    LET ms == Matches(text, regexes)
        ok == Normalized(ms)
    IN  IF mode = "no_fallback" THEN ok
        ELSE IF Len(ok) > 0 THEN <<ok[1]>>
        ELSE IF Len(ms) > 0 THEN <<ms[1]>>
        ELSE <<>>

Abs(x) == IF x < 0 THEN -x ELSE x

RECURSIVE Pow10(_)
Pow10(n) == IF n = 0 THEN 1 ELSE 10 * Pow10(n - 1)

Equivalent(g, p, precision) ==
    IF g.form = "slow" \/ p.form = "slow" THEN FALSE
    ELSE IF g.form = "num" /\ p.form = "num"
         THEN Abs(g.num - p.num) * Pow10(precision)
                 <= (IF Abs(g.num) > 100 THEN Abs(g.num) ELSE 100)
    ELSE IF g.form = "raw" /\ p.form = "raw" THEN FALSE
    ELSE g.text = p.text

compare_gold_target(gold, pred, precision) ==
    \E i \in 1..Len(gold) : \E j \in 1..Len(pred) :
        Equivalent(gold[i], pred[j], precision)

(***************************************************************************)
(* State.  config is the closure of sample_level_fn; everything else is    *)
(* per call: the arguments, the position in the body, the locals (kept in  *)
(* the frame of the call), the warnings the call logged, the collaborator  *)
(* calls it made and what it returned.                                     *)
(***************************************************************************)
VARIABLES config, pc, golds, predictions,
          extracted_golds, extracted_predictions, str_preds,
          log, effects, ret

vars == <<config, pc, golds, predictions,
          extracted_golds, extracted_predictions, str_preds,
          log, effects, ret>>

SharedFrame(c) == 1

FrameOf(c) == c

ThenWarnFirst(stmt) ==
    CASE stmt = "extract" -> "check_preds"
      [] stmt = "check_preds" -> "check_golds"
      [] stmt = "check_golds" -> "render"
      [] stmt = "render" -> "score"

Then(stmt) ==
    CASE stmt = "extract" -> "check_golds"
      [] stmt = "check_golds" -> "check_preds"
      [] stmt = "check_preds" -> "render"
      [] stmt = "render" -> "score"

NoEffects == [compare |-> 0, render |-> "none", aggregate |-> 0]

ExtractAll(texts, targets, mode) ==
    [i \in 1..Len(texts) |->
        extract_target_from_pred(texts[i], get_extraction_regexes(targets), mode)]

MissingGoldAll(eg) == \A i \in 1..Len(eg) : Len(eg[i]) = 0

MissingGoldSkipFirst(eg) == \E i \in 2..Len(eg) : Len(eg[i]) = 0

MissingGold(eg) == \E i \in 1..Len(eg) : Len(eg[i]) = 0

NoPredictionAny(ep) == \E i \in 1..Len(ep) : Len(ep[i]) = 0

NoPrediction(ep) == \A i \in 1..Len(ep) : Len(ep[i]) = 0

RECURSIVE Flatten(_)
Flatten(ss) == IF Len(ss) = 0 THEN <<>> ELSE Head(ss) \o Flatten(Tail(ss))

Str(m) == m.text

StrAll(ms) == [i \in 1..Len(ms) |-> Str(ms[i])]

get_str_preds_with_timeout(ep, eg) ==
    <<StrAll(Flatten(eg)), StrAll(Flatten(ep))>>

RenderOutcomes == {"ok", "timeout", "error"}

PredictionScoreAllGolds(eg, pred, precision) ==
    IF \A j \in 1..Len(eg) : compare_gold_target(eg[j], pred, precision)
    THEN 1 ELSE 0

PredictionScoreEmptyMatches(eg, pred, precision) ==
    IF Len(pred) = 0
       \/ \E j \in 1..Len(eg) : compare_gold_target(eg[j], pred, precision)
    THEN 1 ELSE 0

PredictionScoreInverted(eg, pred, precision) ==
    IF \E j \in 1..Len(eg) : compare_gold_target(eg[j], pred, precision)
    THEN 0 ELSE 1

PredictionScore(eg, pred, precision) ==
    IF \E j \in 1..Len(eg) : compare_gold_target(eg[j], pred, precision)
    THEN 1 ELSE 0

PredictionScores(eg, ep, precision) ==
    [i \in 1..Len(ep) |-> PredictionScore(eg, ep[i], precision)]

\* compare_gold_target calls made by any(...) for one prediction: any stops at
\* the first gold that compares equal.
CompareCallsFor(eg, pred, precision) ==
    LET hits == {j \in 1..Len(eg) : compare_gold_target(eg[j], pred, precision)}
    IN  IF hits = {} THEN Len(eg)
        ELSE CHOOSE j \in hits : \A k \in hits : j <= k

RECURSIVE SumSeq(_)
SumSeq(xs) == IF Len(xs) = 0 THEN 0 ELSE Head(xs) + SumSeq(Tail(xs))

CompareCalls(eg, ep, precision) ==
    SumSeq([i \in 1..Len(ep) |-> CompareCallsFor(eg, ep[i], precision)])

MaxSeq(xs) == CHOOSE x \in Range(xs) : \A y \in Range(xs) : y <= x

\* The builtins a metric is constructed with: max raises ValueError on an
\* empty list, sum and len do not.
Aggregate(fn, xs) ==
    CASE fn = "max" -> IF Len(xs) = 0 THEN [ok |-> FALSE, val |-> 0]
                       ELSE [ok |-> TRUE, val |-> MaxSeq(xs)]
      [] fn = "sum" -> [ok |-> TRUE, val |-> SumSeq(xs)]
      [] fn = "len" -> [ok |-> TRUE, val |-> Len(xs)]

ReturnZeroOnFailedRendering(value, sp) ==
    <<(IF sp = <<>> THEN 0 ELSE value), sp>>

ReturnValue(value, sp) == <<value, sp>>

(***************************************************************************)
(* Initial states: one metric, one call about to run.                      *)
(***************************************************************************)
NoFrame == [c \in Calls |-> <<>>]

Init ==
    /\ config \in Configs
    /\ \E g \in SeqsUpTo(Texts, MaxGolds), p \in SeqsUpTo(Texts, MaxPreds) :
          /\ golds = [c \in Calls |-> IF c = 1 THEN g ELSE <<>>]
          /\ predictions = [c \in Calls |-> IF c = 1 THEN p ELSE <<>>]
    /\ pc = [c \in Calls |-> IF c = 1 THEN "extract" ELSE "idle"]
    /\ extracted_golds = NoFrame
    /\ extracted_predictions = NoFrame
    /\ str_preds = NoFrame
    /\ log = [c \in Calls |-> <<>>]
    /\ effects = [c \in Calls |-> NoEffects]
    /\ ret = [c \in Calls |-> <<>>]

(***************************************************************************)
(* sample_level_fn, statement by statement.                                *)
(***************************************************************************)
Extract(c) ==
    /\ pc[c] = "extract"
    /\ extracted_predictions' =
          [extracted_predictions EXCEPT ![FrameOf(c)] =
              ExtractAll(predictions[c], config.pred_extraction_target,
                         config.fallback_mode)]
    /\ extracted_golds' =
          [extracted_golds EXCEPT ![FrameOf(c)] =
              ExtractAll(golds[c], config.gold_extraction_target,
                         config.fallback_mode)]
    /\ str_preds' = [str_preds EXCEPT ![FrameOf(c)] = <<>>]
    /\ pc' = [pc EXCEPT ![c] = Then("extract")]
    /\ UNCHANGED <<config, golds, predictions, log, effects, ret>>

CheckGolds(c) ==
    /\ pc[c] = "check_golds"
    /\ pc' = [pc EXCEPT ![c] =
                IF MissingGold(extracted_golds[FrameOf(c)])
                THEN "raised" ELSE Then("check_golds")]
    /\ UNCHANGED <<config, golds, predictions, extracted_golds,
                   extracted_predictions, str_preds, log, effects, ret>>

CheckPredictions(c) ==
    /\ pc[c] = "check_preds"
    /\ log' = [log EXCEPT ![c] =
                IF NoPrediction(extracted_predictions[FrameOf(c)])
                THEN Append(@, "no_prediction") ELSE @]
    /\ pc' = [pc EXCEPT ![c] = Then("check_preds")]
    /\ UNCHANGED <<config, golds, predictions, extracted_golds,
                   extracted_predictions, str_preds, effects, ret>>

Render(c) ==
    /\ pc[c] = "render"
    /\ \E outcome \in RenderOutcomes :
          IF outcome = "ok"
          THEN /\ str_preds' =
                    [str_preds EXCEPT ![FrameOf(c)] =
                        get_str_preds_with_timeout(
                            extracted_predictions[FrameOf(c)],
                            extracted_golds[FrameOf(c)])]
               /\ log' = log
               /\ effects' = [effects EXCEPT ![c].render = outcome]
          ELSE /\ str_preds' = [str_preds EXCEPT ![FrameOf(c)] = <<>>]
               /\ log' = [log EXCEPT ![c] = Append(@, "render_warning")]
               /\ effects' = [effects EXCEPT ![c].render = outcome]
    /\ pc' = [pc EXCEPT ![c] = Then("render")]
    /\ UNCHANGED <<config, golds, predictions, extracted_golds,
                   extracted_predictions, ret>>

Score(c) ==
    /\ pc[c] = "score"
    /\ LET eg == extracted_golds[FrameOf(c)]
           ep == extracted_predictions[FrameOf(c)]
           a == Aggregate(config.aggregation_function,
                          PredictionScores(eg, ep, config.precision))
       IN  /\ effects' = [effects EXCEPT
                            ![c].compare = @ + CompareCalls(eg, ep, config.precision),
                            ![c].aggregate = @ + 1]
           /\ IF a.ok
              THEN /\ ret' = [ret EXCEPT ![c] =
                                ReturnValue(a.val, str_preds[FrameOf(c)])]
                   /\ pc' = [pc EXCEPT ![c] = "returned"]
              ELSE /\ ret' = ret
                   /\ pc' = [pc EXCEPT ![c] = "agg_raised"]
    /\ UNCHANGED <<config, golds, predictions, extracted_golds,
                   extracted_predictions, str_preds, log>>

Next ==
    \/ \E c \in Calls : Extract(c)
    \/ \E c \in Calls : CheckGolds(c)
    \/ \E c \in Calls : CheckPredictions(c)
    \/ \E c \in Calls : Render(c)
    \/ \E c \in Calls : Score(c)

Spec == Init /\ [][Next]_vars

(***************************************************************************)
(* Two calls of the same metric running concurrently, each on one of a few *)
(* samples.                                                                *)
(***************************************************************************)
ConcTexts == {NoAnswer, Boxed1, Plain105}

ConcSamples == SeqsUpTo(ConcTexts, 1) \X SeqsUpTo(ConcTexts, 1)

InitConc ==
    /\ config \in Configs
    /\ \E s1 \in ConcSamples, s2 \in ConcSamples :
          /\ golds = [c \in Calls |-> IF c = 1 THEN s1[1] ELSE s2[1]]
          /\ predictions = [c \in Calls |-> IF c = 1 THEN s1[2] ELSE s2[2]]
    /\ pc = [c \in Calls |-> "extract"]
    /\ extracted_golds = NoFrame
    /\ extracted_predictions = NoFrame
    /\ str_preds = NoFrame
    /\ log = [c \in Calls |-> <<>>]
    /\ effects = [c \in Calls |-> NoEffects]
    /\ ret = [c \in Calls |-> <<>>]

ConcSpec == InitConc /\ [][Next]_vars

(***************************************************************************)
(* What the inputs of a call yield, and how a call can end.                *)
(***************************************************************************)
GoldYield(c) ==
    ExtractAll(golds[c], config.gold_extraction_target, config.fallback_mode)

PredYield(c) ==
    ExtractAll(predictions[c], config.pred_extraction_target, config.fallback_mode)

SomeGoldYieldsNothing(c) ==
    \E i \in 1..Len(golds[c]) : Len(GoldYield(c)[i]) = 0

EveryGoldYieldsNothing(c) ==
    \A i \in 1..Len(golds[c]) : Len(GoldYield(c)[i]) = 0

EveryPredictionYieldsNothing(c) ==
    \A i \in 1..Len(predictions[c]) : Len(PredYield(c)[i]) = 0

PredictionMatches(c, i) ==
    \E j \in 1..Len(golds[c]) :
        compare_gold_target(GoldYield(c)[j], PredYield(c)[i], config.precision)

ExpectedScores(c) ==
    [i \in 1..Len(predictions[c]) |-> IF PredictionMatches(c, i) THEN 1 ELSE 0]

Terminal(c) == pc[c] \in {"returned", "raised", "agg_raised"}

PastGoldCheck(c) ==
    pc[c] \in {"check_preds", "render", "score", "returned", "agg_raised"}

Warned(c, msg) == \E k \in 1..Len(log[c]) : log[c][k] = msg

(***************************************************************************)
(* C1: a call in which at least one gold string yields no candidate never  *)
(* gets past the gold check and returns nothing: it ends with the          *)
(* missing-gold error, whatever the other golds and the predictions yield. *)
(***************************************************************************)
C1_MissingGoldIsFatal ==
    \A c \in Calls :
        SomeGoldYieldsNothing(c) =>
            /\ ~PastGoldCheck(c)
            /\ ret[c] = <<>>
            /\ Terminal(c) => pc[c] = "raised"

C1_Witness ==
    /\ pc[1] = "raised"
    /\ \E i, j \in 1..Len(golds[1]) :
          /\ Len(GoldYield(1)[i]) = 0
          /\ \E k \in 1..Len(predictions[1]) :
                compare_gold_target(GoldYield(1)[j], PredYield(1)[k],
                                    config.precision)

(***************************************************************************)
(* C2 as stated: for a gold sequence of any length, if every gold string   *)
(* yields no candidate the call never returns a value.                     *)
(***************************************************************************)
C2_Original ==
    \A c \in Calls :
        (pc[c] # "idle" /\ EveryGoldYieldsNothing(c)) => pc[c] # "returned"

(***************************************************************************)
(* C2 amended: for a non-empty gold sequence, if every gold string yields  *)
(* no candidate the call ends with the missing-gold error and never        *)
(* returns a value.                                                        *)
(***************************************************************************)
C2_AllGoldsMissing ==
    \A c \in Calls :
        (Len(golds[c]) > 0 /\ EveryGoldYieldsNothing(c)) =>
            /\ pc[c] \notin {"returned", "agg_raised"}
            /\ ret[c] = <<>>

C2_Witness ==
    /\ pc[1] = "raised"
    /\ Len(golds[1]) = 2
    /\ EveryGoldYieldsNothing(1)

(***************************************************************************)
(* C3 as stated: whatever the configuration and the length of the          *)
(* prediction sequence, if every prediction yields no candidate and every  *)
(* gold yields one, the call returns 0.0 and does not raise.               *)
(***************************************************************************)
C3_Original ==
    \A c \in Calls :
        (Terminal(c) /\ ~SomeGoldYieldsNothing(c)
                     /\ EveryPredictionYieldsNothing(c)) =>
            (pc[c] = "returned" /\ ret[c][1] = 0)

(***************************************************************************)
(* C3 amended: if every prediction yields no candidate and every gold      *)
(* yields one, the call never raises the missing-gold error and hands the  *)
(* aggregation function one 0.0 per prediction: with max over a non-empty  *)
(* prediction sequence, and with sum, it returns 0.0; with max over an     *)
(* empty prediction sequence the aggregation raises; a function such as    *)
(* len returns its own value.                                              *)
(***************************************************************************)
C3_NoPredictionScoresZero ==
    \A c \in Calls :
        (Terminal(c) /\ ~SomeGoldYieldsNothing(c)
                     /\ EveryPredictionYieldsNothing(c)) =>
            LET fn == config.aggregation_function
                n == Len(predictions[c])
            IN  /\ pc[c] # "raised"
                /\ (fn = "max" /\ n > 0) => (pc[c] = "returned" /\ ret[c][1] = 0)
                /\ (fn = "max" /\ n = 0) => pc[c] = "agg_raised"
                /\ fn = "sum" => (pc[c] = "returned" /\ ret[c][1] = 0)
                /\ fn = "len" => (pc[c] = "returned" /\ ret[c][1] = n)

C3_Witness ==
    /\ pc[1] = "returned"
    /\ ret[1][1] = 0
    /\ config.aggregation_function = "max"
    /\ Len(predictions[1]) = 2
    /\ Len(golds[1]) > 0
    /\ ~SomeGoldYieldsNothing(1)
    /\ EveryPredictionYieldsNothing(1)

(***************************************************************************)
(* C4: when a call returns, its scalar is the aggregation function applied *)
(* to the list with one entry per prediction, in order, 1.0 where the      *)
(* prediction's candidates are equivalent to those of some gold and 0.0    *)
(* elsewhere; with max it is 1.0 iff some prediction matches some gold and *)
(* 0.0 otherwise.                                                          *)
(***************************************************************************)
C4_ScalarIsAggregateOfMatches ==
    \A c \in Calls :
        pc[c] = "returned" =>
            /\ ret[c][1] = Aggregate(config.aggregation_function,
                                     ExpectedScores(c)).val
            /\ config.aggregation_function = "max" =>
                  /\ ret[c][1] \in {0, 1}
                  /\ ret[c][1] = 1 <=>
                        \E i \in 1..Len(predictions[c]) : PredictionMatches(c, i)

C4_Witness ==
    /\ pc[1] = "returned"
    /\ config.aggregation_function = "max"
    /\ ret[1][1] = 1
    /\ Len(golds[1]) = 2
    /\ Len(predictions[1]) = 2
    /\ ~PredictionMatches(1, 1)
    /\ PredictionMatches(1, 2)
    /\ ~compare_gold_target(GoldYield(1)[1], PredYield(1)[2], config.precision)

(***************************************************************************)
(* C5 as stated: for every non-empty string s, the call with golds = [s]   *)
(* and predictions = [s] returns 1.0.                                      *)
(***************************************************************************)
C5_Original ==
    \A c \in Calls :
        (Terminal(c) /\ Len(golds[c]) = 1 /\ predictions[c] = golds[c]) =>
            (pc[c] = "returned" /\ ret[c][1] = 1)

(***************************************************************************)
(* C5 amended: for every string s from which the gold side and the         *)
(* prediction side extract the same, non-empty list of candidates, all of  *)
(* them normalized to numeric values, the call with golds = [s] and        *)
(* predictions = [s] returns 1.0.                                          *)
(***************************************************************************)
C5_VerbatimCopyScoresOne ==
    \A c \in Calls :
        (/\ Terminal(c)
         /\ Len(golds[c]) = 1
         /\ predictions[c] = golds[c]
         /\ Len(GoldYield(c)[1]) > 0
         /\ PredYield(c)[1] = GoldYield(c)[1]
         /\ \A k \in 1..Len(GoldYield(c)[1]) : GoldYield(c)[1][k].form = "num") =>
            (pc[c] = "returned" /\ ret[c][1] = 1)

C5_Witness ==
    /\ pc[1] = "returned"
    /\ ret[1][1] = 1
    /\ Len(golds[1]) = 1
    /\ predictions[1] = golds[1]
    /\ Len(GoldYield(1)[1]) > 0
    /\ GoldYield(1)[1][1].form = "num"

(***************************************************************************)
(* C6: two calls of the same metric on the same golds and predictions end  *)
(* the same way and, when they return, return the same scalar, whether     *)
(* their renderings succeeded, timed out or failed.                        *)
(***************************************************************************)
C6_RenderingDoesNotAffectScalar ==
    \A c1, c2 \in Calls :
        (/\ Terminal(c1) /\ Terminal(c2)
         /\ golds[c1] = golds[c2]
         /\ predictions[c1] = predictions[c2]) =>
            /\ pc[c1] = pc[c2]
            /\ pc[c1] = "returned" => ret[c1][1] = ret[c2][1]

C6_Witness ==
    /\ pc[1] = "returned" /\ pc[2] = "returned"
    /\ golds[1] = golds[2]
    /\ predictions[1] = predictions[2]
    /\ effects[1].render = "ok"
    /\ effects[2].render = "timeout"
    /\ ret[1][1] = 1
    /\ ret[2][1] = 1

(***************************************************************************)
(* C7: when the rendering times out or fails, the call still returns, a    *)
(* warning is logged, and the diagnostic element of the result is the      *)
(* empty rendering: a pair of an empty gold list and an empty prediction   *)
(* list, the shape a successful rendering has.                             *)
(***************************************************************************)
C7_FailedRenderingReturnsEmptyPair ==
    \A c \in Calls :
        (pc[c] = "returned" /\ effects[c].render \in {"timeout", "error"}) =>
            /\ Warned(c, "render_warning")
            /\ ret[c][2] = << <<>>, <<>> >>

AloneOutcome(c) ==
    IF SomeGoldYieldsNothing(c) THEN "raised"
    ELSE IF Aggregate(config.aggregation_function, ExpectedScores(c)).ok
         THEN "returned" ELSE "agg_raised"

\* A call that has ended has the outcome and the scalar of the same call run
\* alone on its own golds and predictions.
CallsAreIndependent ==
    \A c \in Calls :
        Terminal(c) =>
            /\ pc[c] = AloneOutcome(c)
            /\ pc[c] = "returned" =>
                  ret[c][1] = Aggregate(config.aggregation_function,
                                        ExpectedScores(c)).val

(***************************************************************************)
(* C8: in any interleaving of two calls of one metric, a call that ends    *)
(* has the outcome and the scalar it has when run alone on its own golds   *)
(* and predictions, and no step changes the configuration.                 *)
(***************************************************************************)
C8_NoSharedMutableState ==
    /\ []CallsAreIndependent
    /\ [][config' = config]_vars

C8_Witness ==
    /\ pc[1] = "returned" /\ pc[2] = "returned"
    /\ golds[1] # golds[2]
    /\ predictions[1] # predictions[2]
    /\ ret[1][1] # ret[2][1]

(***************************************************************************)
(* C9 as stated: in a call whose golds all yield a candidate, if all       *)
(* predictions yield nothing the shortfall warning is logged and the call  *)
(* goes on to return a result; if some prediction yields a candidate no    *)
(* shortfall warning is logged.                                            *)
(***************************************************************************)
C9_Original ==
    \A c \in Calls :
        (Terminal(c) /\ ~SomeGoldYieldsNothing(c)) =>
            IF EveryPredictionYieldsNothing(c)
            THEN Warned(c, "no_prediction") /\ pc[c] = "returned"
            ELSE ~Warned(c, "no_prediction")

(***************************************************************************)
(* C9 amended: in a call whose golds all yield a candidate, the shortfall  *)
(* warning is logged iff all predictions yield nothing; the call then goes *)
(* on through rendering, every gold-prediction comparison and the          *)
(* aggregation, and returns a result unless the aggregation function       *)
(* itself raises, as max does on an empty prediction sequence.             *)
(***************************************************************************)
C9_ShortfallWarnsAndContinues ==
    \A c \in Calls :
        ~SomeGoldYieldsNothing(c) =>
            /\ pc[c] \in {"render", "score", "returned", "agg_raised"} =>
                  (Warned(c, "no_prediction") <=> EveryPredictionYieldsNothing(c))
            /\ (Terminal(c) /\ EveryPredictionYieldsNothing(c)) =>
                  /\ effects[c].render # "none"
                  /\ effects[c].compare = Len(golds[c]) * Len(predictions[c])
                  /\ effects[c].aggregate = 1
                  /\ pc[c] = "agg_raised" =>
                        (/\ config.aggregation_function = "max"
                         /\ Len(predictions[c]) = 0)

C9_Witness ==
    /\ pc[1] = "returned"
    /\ Warned(1, "no_prediction")
    /\ Len(golds[1]) = 2
    /\ Len(predictions[1]) = 2
    /\ effects[1].compare = 4

(***************************************************************************)
(* C10: a call that raises the missing-gold error has made no comparison,  *)
(* no rendering and no aggregation, has logged no warning and has returned *)
(* nothing, even when all its predictions yield nothing.                   *)
(***************************************************************************)
C10_MissingGoldCheckComesFirst ==
    \A c \in Calls :
        pc[c] = "raised" =>
            /\ effects[c] = NoEffects
            /\ log[c] = <<>>
            /\ ret[c] = <<>>

C10_Witness ==
    /\ pc[1] = "raised"
    /\ Len(predictions[1]) = 2
    /\ EveryPredictionYieldsNothing(1)

====
